---- MODULE Spec2Model ----
(***************************************************************************)
(* Lesson-evaluation dashboard: the response normalizer, the live and     *)
(* demo upload handlers, the upload form and the mock generator.          *)
(*                                                                         *)
(* JavaScript values are tagged records (field t is the tag).  Numbers    *)
(* are held in tenths (Num(30) is 3, Num(25) is 2.5) so one-decimal       *)
(* values are exact.  A string is a sequence of chunks: [c |-> w] is the  *)
(* literal text w (Blank is a whitespace character), [json |-> v] is the  *)
(* text of a JSON document whose value is v.  Long prose of the sample    *)
(* payload is shortened to its opening words; diacritics are dropped.     *)
(***************************************************************************)
EXTENDS Integers, Sequences, FiniteSets, TLC

VARIABLES
    raw,                \* the input of the function under test
    result,             \* what the function returned, or Pending
    evaluation,         \* DashboardPage state
    latestTranscript,
    resolvedMetadata,
    isSubmitting,
    feedback,
    metadata,           \* LessonUploadForm state
    audioFile,
    localError,
    request,            \* the handleLessonUpload call in flight, or NoRequest
    sampleObject        \* the object the module constant sampleEvaluation refers to

vars == <<raw, result, evaluation, latestTranscript, resolvedMetadata,
          isSubmitting, feedback, metadata, audioFile, localError, request,
          sampleObject>>

normVars == <<raw, result>>
pageVars == <<evaluation, latestTranscript, resolvedMetadata, isSubmitting, feedback,
              sampleObject>>
formVars == <<metadata, audioFile, localError>>

---------------------------------------------------------------------------
(* JavaScript values *)

Undef == [t |-> "undefined"]
Null == [t |-> "null"]
Bool(b) == [t |-> "boolean", b |-> b]
Num(n) == [t |-> "number", n |-> n]
Str(s) == [t |-> "string", s |-> s]
Arr(a) == [t |-> "array", a |-> a]
Obj(f) == [t |-> "object", f |-> f]

Blank == [c |-> " "]
Text(w) == Str(<<[c |-> w]>>)
JsonText(v) == Str(<<[json |-> v]>>)
EmptyString == Str(<<>>)
NoFields == [k \in {} |-> Undef]

\* an exception in flight, with the Error's message
Thrown(msg) == [t |-> "throw", message |-> msg]
IsThrown(v) == v.t = "throw"

TypeOf(v) ==
    IF v.t \in {"null", "array", "object"} THEN "object" ELSE v.t

\* !v is FALSE
Truthy(v) ==
    CASE v.t = "undefined" -> FALSE
      [] v.t = "null" -> FALSE
      [] v.t = "boolean" -> v.b
      [] v.t = "number" -> v.n # 0
      [] v.t = "string" -> Len(v.s) > 0
      [] OTHER -> TRUE

\* v.k : reading a property of null or undefined throws a TypeError
Get(v, k) ==
    CASE v.t \in {"undefined", "null"} -> Thrown(Text("TypeError"))
      [] v.t = "object" -> IF k \in DOMAIN v.f THEN v.f[k] ELSE Undef
      [] OTHER -> Undef

\* v?.k
GetOpt(v, k) ==
    IF v.t \in {"undefined", "null"} THEN Undef ELSE Get(v, k)

\* the own enumerable properties {...v} copies
OwnProps(v) ==
    CASE v.t = "object" -> v.f
      [] v.t = "array" -> [k \in {ToString(i - 1) : i \in DOMAIN v.a} |->
                             v.a[CHOOSE i \in DOMAIN v.a : ToString(i - 1) = k]]
      [] v.t = "string" -> [k \in {ToString(i - 1) : i \in DOMAIN v.s} |->
                             Str(<<v.s[CHOOSE i \in DOMAIN v.s : ToString(i - 1) = k]>>)]
      [] OTHER -> NoFields

\* a spread that lets the first operand win
ObjectSpread_firstWins(a, b) ==
    LET pa == OwnProps(a)
        pb == OwnProps(b)
    IN  Obj([k \in DOMAIN pa \cup DOMAIN pb |->
                IF k \in DOMAIN pa THEN pa[k] ELSE pb[k]])

\* { ...a, ...b }
ObjectSpread(a, b) ==
    LET pa == OwnProps(a)
        pb == OwnProps(b)
    IN  Obj([k \in DOMAIN pa \cup DOMAIN pb |->
                IF k \in DOMAIN pb THEN pb[k] ELSE pa[k]])

RECURSIVE StripLeft(_)
StripLeft(s) ==
    IF s # <<>> /\ Head(s) = Blank THEN StripLeft(Tail(s)) ELSE s

RECURSIVE StripRight(_)
StripRight(s) ==
    IF s # <<>> /\ s[Len(s)] = Blank THEN StripRight(SubSeq(s, 1, Len(s) - 1)) ELSE s

\* String.prototype.trim
Trim(v) == Str(StripRight(StripLeft(v.s)))

\* JSON.parse: one document, whitespace allowed around it; anything else
\* is a SyntaxError
JSONparse(v) ==
    LET body == StripRight(StripLeft(v.s))
    IN  IF Len(body) = 1 /\ DOMAIN body[1] = {"json"}
        THEN body[1].json
        ELSE Thrown(Text("SyntaxError"))

---------------------------------------------------------------------------
(* The shipped sample payload *)

SectionKeys == {"lesson_overview", "domain_scores", "global_rating", "limits_of_inference"}

OverviewKeys ==
    {"teacher_name", "school_name", "region", "age_group", "subject", "lesson_type",
     "curriculum_goal_inferred_or_given", "overall_impression"}

GlobalRatingKeys ==
    {"overall_score_average_or_band", "top_strengths", "priority_areas_for_growth",
     "concrete_next_steps_for_teacher"}

LimitsKeys == {"audio_only_constraints", "insufficient_evidence_domains"}

DomainScoreEntry(score, evidence, suggestions) ==
    Obj([score_1_to_4_or_NA |-> Num(score),
         evidence |-> Text(evidence),
         suggestions |-> Arr(suggestions)])

sampleLessonOverview ==
    Obj([teacher_name |-> Text("Jana Novakova"),
         school_name |-> Text("ZS Komenskeho"),
         region |-> Text("Prague, Czech Republic"),
         age_group |-> Text("Upper primary (9-11 years)"),
         subject |-> Text("Mathematics"),
         lesson_type |-> Text("Introduction of new concept"),
         curriculum_goal_inferred_or_given |->
             Text("Students will understand the concept of equivalent fractions"),
         overall_impression |->
             Text("In this Mathematics lesson, Jana Novakova at ZS Komenskeho")])

sampleDomainScores ==
    Obj([instructional_clarity_and_structure |->
             DomainScoreEntry(30, "At the start, the teacher stated",
                 <<Text("End the lesson with a short verbal summary"),
                   Text("Before starting independent work")>>),
         student_cognitive_engagement |->
             DomainScoreEntry(30, "Multiple students volunteered answers",
                 <<Text("More frequently prompt students to explain"),
                   Text("Include at least one short pair-share")>>),
         classroom_management_and_pacing |->
             DomainScoreEntry(40, "Transitions were smooth",
                 <<Text("Maintain the same calm tone"),
                   Text("Consider building in a brief mid-lesson stretch")>>),
         classroom_climate_and_tone |->
             DomainScoreEntry(40, "The teacher consistently used polite forms",
                 <<Text("Continue normalizing mistakes"),
                   Text("Occasionally name the positive climate")>>),
         questions_feedback_and_checks |->
             DomainScoreEntry(20, "The teacher frequently asked recall-style questions",
                 <<Text("After a correct answer, follow up with a why question"),
                   Text("Use quick whole-class checks")>>),
         equity_and_student_voice |->
             DomainScoreEntry(20, "The same three students answered most questions",
                 <<Text("Intentionally vary participation"),
                   Text("Use think-pair-share")>>),
         age_appropriateness_of_language |->
             DomainScoreEntry(40, "The teacher used concrete examples",
                 <<Text("Continue pairing new terminology"),
                   Text("Ask students to generate their own everyday examples")>>),
         subject_specific_pedagogy |->
             Obj([score_1_to_4_or_NA |-> Num(30),
                  evidence |-> Text("The teacher connected visual fraction strips"),
                  subject_specific_notes |-> Text("For upper primary mathematics"),
                  suggestions |->
                      Arr(<<Text("Add at least one task where students must decide"),
                            Text("Include a challenge problem")>>)])])

sampleGlobalRating ==
    Obj([overall_score_average_or_band |-> Text("Effective (average ~ 3.0 / 4)"),
         top_strengths |->
             Arr(<<Text("Maintains a warm, respectful classroom climate"),
                   Text("Manages time and behavior effectively")>>),
         priority_areas_for_growth |->
             Arr(<<Text("Increase the depth and variety of questions"),
                   Text("Broaden participation")>>),
         concrete_next_steps_for_teacher |->
             Arr(<<Text("In the next fractions lesson, plan three follow-up prompts"),
                   Text("Introduce a simple participation routine"),
                   Text("Over the next 4-6 weeks, gradually add more open problems")>>)])

sampleLimitsOfInference ==
    Obj([audio_only_constraints |-> Text("From audio alone it is not possible"),
         insufficient_evidence_domains |->
             Arr(<<Text("No evidence was available about written work"),
                   Text("It is not clear how many students were off-task")>>)])

sampleEvaluation ==
    Obj([lesson_overview |-> sampleLessonOverview,
         domain_scores |-> sampleDomainScores,
         global_rating |-> sampleGlobalRating,
         limits_of_inference |-> sampleLimitsOfInference])

---------------------------------------------------------------------------
(* normalizeEvaluation *)

\* candidate.domain_scores ?? sampleEvaluation.domain_scores
Nullish(v, fallback) ==
    IF v.t \in {"undefined", "null"} THEN fallback ELSE v

\* a normalizer that repairs a missing section from the sample and keeps the rest
normalizeCandidate_sectionRepair(candidate) ==
    LET lo == Get(candidate, "lesson_overview")
        ds == Get(candidate, "domain_scores")
        gr == Get(candidate, "global_rating")
        li == Get(candidate, "limits_of_inference")
    IN  IF IsThrown(lo) THEN lo
        ELSE Obj([lesson_overview |-> ObjectSpread(sampleLessonOverview, lo),
                  domain_scores |-> IF Truthy(ds) THEN ds ELSE sampleDomainScores,
                  global_rating |-> ObjectSpread(sampleGlobalRating, gr),
                  limits_of_inference |-> ObjectSpread(sampleLimitsOfInference, li)])

\* a normalizer that merges domain_scores over the sample's like the other sections
normalizeCandidate_mergeScores(candidate) ==
    LET lo == Get(candidate, "lesson_overview")
        ds == Get(candidate, "domain_scores")
        gr == Get(candidate, "global_rating")
        li == Get(candidate, "limits_of_inference")
    IN  IF IsThrown(lo) THEN lo
        ELSE IF ~Truthy(lo) \/ ~Truthy(ds) \/ ~Truthy(gr) \/ ~Truthy(li)
        THEN sampleEvaluation
        ELSE Obj([lesson_overview |-> ObjectSpread(sampleLessonOverview, lo),
                  domain_scores |-> ObjectSpread(sampleDomainScores, ds),
                  global_rating |-> ObjectSpread(sampleGlobalRating, gr),
                  limits_of_inference |-> ObjectSpread(sampleLimitsOfInference, li)])

\* the candidate object in hand
\* a normalizer that refuses a candidate with a missing section
normalizeCandidate_strict(candidate) ==
    IF \E k \in SectionKeys : ~Truthy(Get(candidate, k))
    THEN Thrown(Text("Invalid evaluation"))
    ELSE Obj([lesson_overview |->
                  ObjectSpread(sampleLessonOverview, Get(candidate, "lesson_overview")),
              domain_scores |-> Get(candidate, "domain_scores"),
              global_rating |->
                  ObjectSpread(sampleGlobalRating, Get(candidate, "global_rating")),
              limits_of_inference |->
                  ObjectSpread(sampleLimitsOfInference, Get(candidate, "limits_of_inference"))])

normalizeCandidate(candidate) ==
    LET lo == Get(candidate, "lesson_overview")
        ds == Get(candidate, "domain_scores")
        gr == Get(candidate, "global_rating")
        li == Get(candidate, "limits_of_inference")
    IN  IF IsThrown(lo) THEN lo
        ELSE IF ~Truthy(lo) \/ ~Truthy(ds) \/ ~Truthy(gr) \/ ~Truthy(li)
        THEN sampleEvaluation
        ELSE Obj([lesson_overview |-> ObjectSpread(sampleLessonOverview, lo),
                  domain_scores |-> Nullish(ds, sampleDomainScores),
                  global_rating |-> ObjectSpread(sampleGlobalRating, gr),
                  limits_of_inference |-> ObjectSpread(sampleLimitsOfInference, li)])

RECURSIVE normalizeEvaluation(_)

\* a normalizer that tests raw === undefined instead of !raw
normalizeEvaluation_undefinedOnly(rawValue) ==
    IF rawValue = Undef THEN sampleEvaluation
    ELSE IF TypeOf(rawValue) = "string"
    THEN LET parsed == JSONparse(rawValue)
         IN  IF IsThrown(parsed) THEN sampleEvaluation
             ELSE LET inner == normalizeEvaluation(parsed)
                  IN  IF IsThrown(inner) THEN sampleEvaluation ELSE inner
    ELSE normalizeCandidate(rawValue)

\* a normalizer that decodes a string once and does not normalize what it decoded
normalizeEvaluation_parseOnce(rawValue) ==
    IF ~Truthy(rawValue) THEN sampleEvaluation
    ELSE IF TypeOf(rawValue) = "string"
    THEN LET parsed == JSONparse(rawValue)
         IN  IF IsThrown(parsed) THEN sampleEvaluation
             ELSE LET inner == normalizeCandidate(parsed)
                  IN  IF IsThrown(inner) THEN sampleEvaluation ELSE inner
    ELSE normalizeCandidate(rawValue)

\* a normalizer that takes an evaluation as JSON text only and answers any
\* other value with the sample
normalizeEvaluation_textOnly(rawValue) ==
    IF TypeOf(rawValue) # "string" THEN sampleEvaluation
    ELSE LET parsed == JSONparse(rawValue)
         IN  IF IsThrown(parsed) \/ ~Truthy(parsed) THEN sampleEvaluation
             ELSE normalizeCandidate(parsed)

normalizeEvaluation(rawValue) ==
    IF ~Truthy(rawValue) THEN sampleEvaluation
    ELSE IF TypeOf(rawValue) = "string"
    THEN LET parsed == JSONparse(rawValue)
         IN  IF IsThrown(parsed) THEN sampleEvaluation
             ELSE LET inner == normalizeEvaluation(parsed)
                  IN  IF IsThrown(inner) THEN sampleEvaluation ELSE inner
    ELSE normalizeCandidate(rawValue)

---------------------------------------------------------------------------
(* Raw values handed to normalizeEvaluation *)

\* how many times over a raw value may be JSON-encoded
MaxEncodeDepth == 2

\* an option of a section that leaves its key out of the object
Absent == [t |-> "absent"]

candidateLessonOverview ==
    Obj([teacher_name |-> Text("Mr. Dvorak"),
         school_name |-> Text("Gymnazium Brno"),
         region |-> Text("South Moravia"),
         age_group |-> Text("Lower secondary"),
         subject |-> Text("Physics"),
         lesson_type |-> Text("Lab work"),
         curriculum_goal_inferred_or_given |-> Text("Students measure density"),
         overall_impression |-> Text("A brisk lab lesson")])

WithoutKey(o, key) == Obj([k \in DOMAIN o.f \ {key} |-> o.f[k]])

candidateGlobalRating ==
    Obj([overall_score_average_or_band |-> Text("Developing"),
         top_strengths |-> Arr(<<Text("Clear lab safety routine")>>),
         priority_areas_for_growth |-> Arr(<<Text("Wait time")>>),
         concrete_next_steps_for_teacher |-> Arr(<<Text("Plan two probing questions")>>)])

candidateLimits ==
    Obj([audio_only_constraints |-> Text("Lab handling cannot be heard"),
         insufficient_evidence_domains |-> Arr(<<>>)])

LessonOverviewOptions ==
    {Absent, Null, Num(0), Obj(NoFields), Text("oops"),
     Obj([subject |-> Text("Physics")]),
     Obj([subject |-> Null]),
     WithoutKey(candidateLessonOverview, "subject"),
     candidateLessonOverview}

DomainScoresOptions ==
    {Absent, Null, EmptyString, Obj(NoFields), Text("oops"),
     Obj([lab_safety |-> DomainScoreEntry(20, "Goggles were mentioned", <<Text("Model it")>>),
          inquiry |-> Obj([score_1_to_4_or_NA |-> Text("NA"),
                           evidence |-> Text("Not audible"),
                           suggestions |-> Arr(<<>>)])]),
     Obj([lab_safety |-> DomainScoreEntry(70, "Goggles were mentioned", <<>>)]),
     Obj([lab_safety |-> Null])}

GlobalRatingOptions ==
    {Absent, Null, Obj(NoFields),
     Obj([top_strengths |-> Null]),
     WithoutKey(candidateGlobalRating, "top_strengths"),
     candidateGlobalRating}

LimitsOptions ==
    {Absent, Null, Bool(FALSE), Obj(NoFields),
     Obj([insufficient_evidence_domains |-> Text("none")]),
     candidateLimits}

CandidateObject(lo, ds, gr, li) ==
    LET given == [lesson_overview |-> lo, domain_scores |-> ds,
                  global_rating |-> gr, limits_of_inference |-> li]
    IN  Obj([k \in {x \in SectionKeys : given[x] # Absent} |-> given[k]])

CandidateObjects ==
    {CandidateObject(lo, ds, gr, li) :
        lo \in LessonOverviewOptions, ds \in DomainScoresOptions,
        gr \in GlobalRatingOptions, li \in LimitsOptions}

ScalarInputs ==
    {Undef, Null, Bool(FALSE), Bool(TRUE), Num(0), Num(50),
     EmptyString, Str(<<Blank>>), Text("not json"), Str(<<Blank, [c |-> "{"]>>),
     Arr(<<>>), Arr(<<candidateLessonOverview>>),
     Str(<<Blank, [json |-> CandidateObject(candidateLessonOverview, Obj(NoFields),
                                             candidateGlobalRating, candidateLimits)],
           Blank>>),
     Str(<<[json |-> Null], [c |-> "x"]>>)}

RECURSIVE EncodedUpTo(_)
EncodedUpTo(depth) ==
    IF depth = 0 THEN CandidateObjects \cup ScalarInputs
    ELSE LET prev == EncodedUpTo(depth - 1)
         IN  prev \cup {JsonText(v) : v \in prev \ {Undef}}

RawInputs == EncodedUpTo(MaxEncodeDepth)

---------------------------------------------------------------------------
(* Initial state *)

Pending == [t |-> "pending"]
NoRequest == [pc |-> "idle"]
NoFile == [t |-> "null"]

DEFAULT_METADATA ==
    [teacher_name |-> Text("Ms. Novak"),
     school_name |-> Text("Gymnazium Praha"),
     region |-> Text("Central Bohemia, Czech Republic"),
     age_group |-> Text("Upper primary (9-11 years)"),
     subject |-> Text("Mathematics"),
     lesson_type |-> Text("Practice / consolidation"),
     curriculum_goal |-> Text("Students consolidate multi-digit division strategies."),
     language_of_instruction |-> Text("Czech")]

\* DashboardPage: the useState initial values
PageInit ==
    /\ evaluation = sampleEvaluation
    /\ latestTranscript = EmptyString
    /\ resolvedMetadata = Null
    /\ isSubmitting = FALSE
    /\ feedback = Null
    /\ request = NoRequest
    /\ sampleObject = sampleEvaluation

\* LessonUploadForm: the useState initial values
FormInit ==
    /\ metadata = DEFAULT_METADATA
    /\ audioFile = NoFile
    /\ localError = Null

---------------------------------------------------------------------------
(* normalizeEvaluation applied to every raw input *)

Normalize ==
    /\ result = Pending
    /\ result' = normalizeEvaluation(raw)
    /\ UNCHANGED <<raw, pageVars, formVars, request>>

InitNormalize ==
    /\ raw \in RawInputs
    /\ result = Pending
    /\ PageInit
    /\ FormInit

NextNormalize == Normalize

SpecNormalize == InitNormalize /\ [][NextNormalize]_vars

---------------------------------------------------------------------------
(* The shape the dashboard renders *)

IsString(v) == v.t = "string"

IsStringList(v) ==
    /\ v.t = "array"
    /\ \A i \in DOMAIN v.a : IsString(v.a[i])

IsDomainScore(d) ==
    /\ d.t = "object"
    /\ {"score_1_to_4_or_NA", "evidence", "suggestions"} \subseteq DOMAIN d.f
    /\ \/ d.f.score_1_to_4_or_NA.t = "number"
       \/ d.f.score_1_to_4_or_NA = Text("NA")
    /\ IsString(d.f.evidence)
    /\ IsStringList(d.f.suggestions)
    /\ "subject_specific_notes" \in DOMAIN d.f => IsString(d.f.subject_specific_notes)

IsEvaluationPayload(p) ==
    /\ p.t = "object"
    /\ SectionKeys \subseteq DOMAIN p.f
    /\ p.f.lesson_overview.t = "object"
    /\ OverviewKeys \subseteq DOMAIN p.f.lesson_overview.f
    /\ \A k \in OverviewKeys : IsString(p.f.lesson_overview.f[k])
    /\ p.f.domain_scores.t = "object"
    /\ \A d \in DOMAIN p.f.domain_scores.f : IsDomainScore(p.f.domain_scores.f[d])
    /\ p.f.global_rating.t = "object"
    /\ GlobalRatingKeys \subseteq DOMAIN p.f.global_rating.f
    /\ IsString(p.f.global_rating.f.overall_score_average_or_band)
    /\ IsStringList(p.f.global_rating.f.top_strengths)
    /\ IsStringList(p.f.global_rating.f.priority_areas_for_growth)
    /\ IsStringList(p.f.global_rating.f.concrete_next_steps_for_teacher)
    /\ p.f.limits_of_inference.t = "object"
    /\ LimitsKeys \subseteq DOMAIN p.f.limits_of_inference.f
    /\ IsString(p.f.limits_of_inference.f.audio_only_constraints)
    /\ IsStringList(p.f.limits_of_inference.f.insufficient_evidence_domains)

---------------------------------------------------------------------------
(* Claims about normalizeEvaluation, under SpecNormalize *)

Normalized == result # Pending

RawIsObject == raw.t = "object"

AllSectionKeysPresent == RawIsObject /\ SectionKeys \subseteq DOMAIN raw.f

AllSectionsTruthy ==
    /\ AllSectionKeysPresent
    /\ \A k \in SectionKeys : Truthy(raw.f[k])

\* res holds every field of base and of cand, cand's value where cand has the field
IsMergeOver(res, base, cand) ==
    LET given == OwnProps(cand)
    IN  /\ res.t = "object"
        /\ DOMAIN res.f = DOMAIN base.f \cup DOMAIN given
        /\ \A k \in DOMAIN res.f :
              res.f[k] = IF k \in DOMAIN given THEN given[k] ELSE base.f[k]

MergedSectionsOfRaw ==
    /\ ~IsThrown(result)
    /\ IsMergeOver(result.f.lesson_overview, sampleLessonOverview, raw.f.lesson_overview)
    /\ IsMergeOver(result.f.global_rating, sampleGlobalRating, raw.f.global_rating)
    /\ IsMergeOver(result.f.limits_of_inference, sampleLimitsOfInference,
                   raw.f.limits_of_inference)

\* C1: normalizeEvaluation never raises and, for every raw input, returns a
\* structurally valid EvaluationPayload (four sections, every field present
\* and of the shape the dashboard renders).
C1_AlwaysValidPayload ==
    Normalized => (~IsThrown(result) /\ IsEvaluationPayload(result))

\* C2: a raw object lacking at least one of the four top-level keys is
\* answered with the sample payload wholesale.
C2_MissingKeyGivesSample ==
    (Normalized /\ RawIsObject /\ ~AllSectionKeysPresent) => result = sampleEvaluation

C2_Witness ==
    /\ Normalized
    /\ raw = CandidateObject(candidateLessonOverview,
                             Obj([lab_safety |-> DomainScoreEntry(70, "Goggles were mentioned", <<>>)]),
                             Absent, candidateLimits)
    /\ result = sampleEvaluation

\* C3 as stated: whenever all four top-level keys are present, lesson_overview,
\* global_rating and limits_of_inference are each the per-field merge of the
\* candidate's section over the sample's.
C3_KeysPresentMerged ==
    (Normalized /\ AllSectionKeysPresent) => MergedSectionsOfRaw

\* C3 amended: whenever all four top-level keys are present with truthy
\* values (not null, false, 0 or the empty string), the three sections are
\* each the per-field merge of the candidate's section over the sample's.
C3_TruthySectionsMerged ==
    (Normalized /\ AllSectionsTruthy) => MergedSectionsOfRaw

C3_Witness ==
    /\ Normalized
    /\ AllSectionsTruthy
    /\ raw.f.lesson_overview = WithoutKey(candidateLessonOverview, "subject")
    /\ result.f.lesson_overview.f.subject = Text("Mathematics")
    /\ result.f.lesson_overview.f.teacher_name = Text("Mr. Dvorak")

\* C4 as stated: whenever all four top-level keys are present, the result's
\* domain_scores is exactly the candidate's.
C4_KeysPresentScoresVerbatim ==
    (Normalized /\ AllSectionKeysPresent) =>
        (~IsThrown(result) /\ result.f.domain_scores = raw.f.domain_scores)

\* C4 amended: whenever all four top-level keys are present with truthy
\* values, the result's domain_scores is exactly the candidate's, whatever
\* key set it uses.
C4_TruthySectionsScoresVerbatim ==
    (Normalized /\ AllSectionsTruthy) =>
        (~IsThrown(result) /\ result.f.domain_scores = raw.f.domain_scores)

C4_Witness ==
    /\ Normalized
    /\ AllSectionsTruthy
    /\ raw.f.domain_scores.t = "object"
    /\ DOMAIN raw.f.domain_scores.f = {"lab_safety", "inquiry"}
    /\ result.f.domain_scores = raw.f.domain_scores

\* C5: a null or undefined raw value is answered with the sample payload,
\* all four top-level keys present.
C5_NullGivesSample ==
    (Normalized /\ raw \in {Null, Undef}) =>
        (result = sampleEvaluation /\ DOMAIN result.f = SectionKeys)

C5_Witness ==
    Normalized /\ raw = Null /\ result = sampleEvaluation

\* C6: a string that is not valid JSON is answered with the sample payload
\* without raising; a string that is valid JSON is answered exactly as its
\* decoded value is, a decoded string being decoded again.
C6_StringDecoded ==
    (Normalized /\ IsString(raw)) =>
        /\ ~IsThrown(result)
        /\ IF IsThrown(JSONparse(raw))
           THEN result = sampleEvaluation
           ELSE result = normalizeEvaluation(JSONparse(raw))

C6_Witness ==
    /\ Normalized
    /\ raw = JsonText(JsonText(CandidateObject(candidateLessonOverview, Obj(NoFields),
                                               candidateGlobalRating, candidateLimits)))
    /\ result # sampleEvaluation
    /\ result.f.lesson_overview = candidateLessonOverview

---------------------------------------------------------------------------
(* LessonUploadForm *)

\* how many of the eight form fields the user has changed from their defaults
MaxEditedFields == 1

AudioFiles == {[t |-> "file", name |-> "lesson.mp3"]}

MetadataKeys == DOMAIN DEFAULT_METADATA

\* the fields the user types into: one resolved under its own name, one
\* lower-cased in the templates, the renamed one and the one never resolved
EditableFields == {"teacher_name", "subject", "curriculum_goal", "language_of_instruction"}

\* what the user types into a field
EditValues == {Str(<<Blank, Blank>>), Str(<<Blank, [c |-> "Physics"], Blank>>)}

EditedFields(m) == {k \in MetadataKeys : m[k] # DEFAULT_METADATA[k]}

handleInputChange(name, value) ==
    /\ metadata' = [metadata EXCEPT ![name] = value]
    /\ Cardinality(EditedFields(metadata')) <= MaxEditedFields
    /\ UNCHANGED <<audioFile, localError, pageVars, request, normVars>>

\* file is a chosen File, or NoFile when the picker is dismissed
handleFileChange(file) ==
    /\ audioFile' = file
    /\ localError' = Null
    /\ UNCHANGED <<metadata, pageVars, request, normVars>>

\* JSON.stringify(metadata)
StringifyMetadata(m) == JsonText(Obj(m))

BuildFormData == [audio |-> audioFile, metadata |-> StringifyMetadata(metadata)]

AttachFileMessage == Text("Please attach an MP3, WAV, or M4A file.")

\* a submit button that is never disabled
SubmitEnabled_always == TRUE

\* the submit button is disabled while isSubmitting
SubmitEnabled == ~isSubmitting

\* a handleSubmit that shows the message and calls onSubmit all the same
handleSubmitRejected_sends ==
    /\ SubmitEnabled
    /\ audioFile = NoFile
    /\ localError' = AttachFileMessage
    /\ isSubmitting' = TRUE
    /\ feedback' = Null
    /\ request' = [pc |-> "fetch", formData |-> BuildFormData]
    /\ UNCHANGED <<metadata, audioFile, evaluation, latestTranscript, resolvedMetadata,
                   normVars, sampleObject>>

\* handleSubmit with no audio file chosen
handleSubmitRejected ==
    /\ SubmitEnabled
    /\ audioFile = NoFile
    /\ localError' = AttachFileMessage
    /\ UNCHANGED <<metadata, audioFile, pageVars, request, normVars>>

\* an effect that clears the chosen file after any outcome
FeedbackEffect_anyOutcome(fb) ==
    audioFile' = IF fb # Null THEN NoFile ELSE audioFile

\* the effect on [feedback]: a success clears the chosen file
FeedbackEffect(fb) ==
    audioFile' = IF fb # Null /\ fb.type = "success" THEN NoFile ELSE audioFile

---------------------------------------------------------------------------
(* DashboardPage wired to the backend *)

RECURSIVE JoinStrings(_)
JoinStrings(parts) ==
    IF parts = <<>> THEN <<>>
    ELSE IF Len(parts) = 1 THEN parts[1]
    ELSE parts[1] \o <<[c |-> ","]>> \o JoinStrings(Tail(parts))

NumberText(n) ==
    IF n % 10 = 0 THEN <<[c |-> ToString(n \div 10)]>>
    ELSE <<[c |-> ToString(n \div 10)], [c |-> "."], [c |-> ToString(n % 10)]>>

\* String(v), as new Error(v) applies it to its message
RECURSIVE JSString(_)
JSString(v) ==
    CASE v.t = "string" -> v
      [] v.t = "number" -> Str(NumberText(v.n))
      [] v.t = "boolean" -> Text(IF v.b THEN "true" ELSE "false")
      [] v.t = "null" -> Text("null")
      [] v.t = "undefined" -> Text("undefined")
      [] v.t = "array" ->
            Str(JoinStrings([i \in DOMAIN v.a |->
                    IF v.a[i].t \in {"null", "undefined"} THEN <<>> ELSE JSString(v.a[i]).s]))
      [] OTHER -> Text("[object Object]")

ResponseOk(response) == response.status >= 200 /\ response.status <= 299

RequestFailedMessage(status) ==
    Str(<<[c |-> "Request failed with status "], [c |-> ToString(status)]>>)

MalformedJsonMessage == Text("Server returned malformed JSON.")

\* the decoded body, or the Error thrown
\* a parseResponse that never reads the body of a failed request
parseResponse_statusOnly(response) ==
    IF ~ResponseOk(response)
    THEN Thrown(RequestFailedMessage(response.status))
    ELSE IF Truthy(response.text)
    THEN LET parsed == JSONparse(response.text)
         IN  IF IsThrown(parsed) THEN Thrown(MalformedJsonMessage) ELSE parsed
    ELSE Obj(NoFields)

parseResponse(response) ==
    IF ~ResponseOk(response)
    THEN LET parsed == JSONparse(response.text)
             err == IF IsThrown(parsed) THEN Undef ELSE GetOpt(parsed, "error")
         IN  Thrown(IF Truthy(err) THEN JSString(err)
                    ELSE RequestFailedMessage(response.status))
    ELSE IF Truthy(response.text)
    THEN LET parsed == JSONparse(response.text)
         IN  IF IsThrown(parsed) THEN Thrown(MalformedJsonMessage) ELSE parsed
    ELSE Obj(NoFields)

SuccessFeedback(message) == [type |-> "success", message |-> message]
ErrorFeedback(message) == [type |-> "error", message |-> message]

LiveSuccessMessage == Text("Lesson evaluated successfully.")

\* a start that leaves the feedback of the previous submission on the page
StartLiveUpload_keepsFeedback(formData) ==
    /\ isSubmitting' = TRUE
    /\ request' = [pc |-> "fetch", formData |-> formData]
    /\ UNCHANGED <<feedback, evaluation, latestTranscript, resolvedMetadata>>

\* handleLessonUpload up to the await of fetch
StartLiveUpload(formData) ==
    /\ isSubmitting' = TRUE
    /\ feedback' = Null
    /\ request' = [pc |-> "fetch", formData |-> formData]
    /\ UNCHANGED <<evaluation, latestTranscript, resolvedMetadata>>

\* handleSubmit with a file chosen: builds the FormData and calls onSubmit
handleSubmitLive ==
    /\ SubmitEnabled
    /\ audioFile # NoFile
    /\ StartLiveUpload(BuildFormData)
    /\ FeedbackEffect(Null)
    /\ UNCHANGED <<metadata, localError, normVars, sampleObject>>

\* a failure that puts the page back to what it showed at first
UploadFailed_resets(message) ==
    /\ feedback' = ErrorFeedback(message)
    /\ FeedbackEffect(ErrorFeedback(message))
    /\ evaluation' = sampleEvaluation
    /\ latestTranscript' = EmptyString
    /\ resolvedMetadata' = Null

\* the catch and finally blocks
UploadFailed(message) ==
    /\ feedback' = ErrorFeedback(message)
    /\ FeedbackEffect(ErrorFeedback(message))
    /\ UNCHANGED <<evaluation, latestTranscript, resolvedMetadata>>

\* a success that replaces the evaluation only
UploadSucceeded_evaluationOnly(newEvaluation, transcript, resolved, message) ==
    /\ evaluation' = newEvaluation
    /\ feedback' = SuccessFeedback(message)
    /\ FeedbackEffect(SuccessFeedback(message))
    /\ UNCHANGED <<latestTranscript, resolvedMetadata>>

\* the try block after a value for payload is in hand, and finally
UploadSucceeded(newEvaluation, transcript, resolved, message) ==
    /\ evaluation' = newEvaluation
    /\ latestTranscript' = transcript
    /\ resolvedMetadata' = resolved
    /\ feedback' = SuccessFeedback(message)
    /\ FeedbackEffect(SuccessFeedback(message))

\* the sample object after normalizeEvaluation(rawValue) returned: the function
\* returns the sample itself or an object literal of spreads, and assigns to no
\* property of the sample
SampleAfterNormalize(sample, rawValue) == sample

\* fetch resolved with response: the rest of handleLessonUpload
FetchResolves(response) ==
    /\ request.pc = "fetch"
    /\ LET payload == parseResponse(response)
       IN  IF IsThrown(payload) THEN UploadFailed(payload.message)
           ELSE LET normalizedEvaluation == normalizeEvaluation(GetOpt(payload, "evaluation"))
                IN  IF IsThrown(normalizedEvaluation)
                    THEN UploadFailed(normalizedEvaluation.message)
                    ELSE UploadSucceeded(normalizedEvaluation,
                             Nullish(GetOpt(payload, "transcript"), EmptyString),
                             Nullish(GetOpt(payload, "metadata"), Null),
                             LiveSuccessMessage)
    /\ sampleObject' =
           LET payload == parseResponse(response)
           IN  IF IsThrown(payload) THEN sampleObject
               ELSE SampleAfterNormalize(sampleObject, GetOpt(payload, "evaluation"))
    /\ isSubmitting' = FALSE
    /\ request' = NoRequest
    /\ UNCHANGED <<metadata, localError, normVars>>

NetworkErrorMessage == Text("Failed to fetch")

\* a rejected fetch whose handler never reaches finally
FetchRejects_hangs ==
    /\ request.pc = "fetch"
    /\ UploadFailed(NetworkErrorMessage)
    /\ isSubmitting' = TRUE
    /\ request' = NoRequest
    /\ UNCHANGED <<metadata, localError, normVars, sampleObject>>

\* fetch rejected (the network failed): catch and finally
FetchRejects ==
    /\ request.pc = "fetch"
    /\ UploadFailed(NetworkErrorMessage)
    /\ isSubmitting' = FALSE
    /\ request' = NoRequest
    /\ UNCHANGED <<metadata, localError, normVars, sampleObject>>

---------------------------------------------------------------------------
(* What the backend may answer *)

inRangeDomainScores ==
    Obj([lab_safety |-> DomainScoreEntry(20, "Goggles were mentioned", <<Text("Model it")>>),
         inquiry |-> Obj([score_1_to_4_or_NA |-> Text("NA"),
                          evidence |-> Text("Not audible"),
                          suggestions |-> Arr(<<>>)])])

outOfRangeDomainScores ==
    Obj([lab_safety |-> DomainScoreEntry(70, "Goggles were mentioned", <<>>)])

LiveEvaluations ==
    {CandidateObject(candidateLessonOverview, inRangeDomainScores,
                     candidateGlobalRating, candidateLimits),
     CandidateObject(candidateLessonOverview, outOfRangeDomainScores,
                     candidateGlobalRating, candidateLimits),
     CandidateObject(candidateLessonOverview, inRangeDomainScores,
                     Absent, candidateLimits),
     JsonText(CandidateObject(WithoutKey(candidateLessonOverview, "subject"),
                              inRangeDomainScores, candidateGlobalRating, candidateLimits)),
     Text("Sure! Here is the evaluation you asked for"),
     Null}

backendMetadata ==
    Obj([k \in MetadataKeys \cup {"extra_metadata"} |->
            IF k = "extra_metadata" THEN Obj([room |-> Text("B12")])
            ELSE DEFAULT_METADATA[k]])

backendTranscript == Text("Dobry den, dnes se budeme ucit o zlomcich")

SuccessBody(e) ==
    JsonText(Obj([metadata |-> backendMetadata,
                  transcript |-> backendTranscript,
                  evaluation |-> e]))

LiveResponses ==
    {[status |-> 200, text |-> SuccessBody(e)] : e \in LiveEvaluations}
    \cup {[status |-> 200, text |-> JsonText(Obj([transcript |-> backendTranscript]))],
          [status |-> 200, text |-> JsonText(Null)],
          [status |-> 200, text |-> EmptyString],
          [status |-> 200, text |-> Text("<html>Bad gateway</html>")],
          [status |-> 500, text |-> JsonText(Obj([error |-> Text("transcription failed")]))],
          [status |-> 500, text |-> JsonText(Obj([error |-> Num(50)]))],
          [status |-> 502, text |-> JsonText(Obj([error |-> EmptyString]))],
          [status |-> 500, text |-> JsonText(Obj([detail |-> Text("no error field")]))],
          [status |-> 500, text |-> Text("Internal Server Error")],
          [status |-> 400, text |-> JsonText(Obj([error |-> Text("audio file is required")]))],
          [status |-> 404, text |-> JsonText(Null)]}

---------------------------------------------------------------------------
(* The live dashboard *)

InputChange ==
    \E name \in EditableFields :
        \E value \in EditValues \cup {DEFAULT_METADATA[name]} :
            handleInputChange(name, value)

FileChange == \E file \in AudioFiles \cup {NoFile} : handleFileChange(file)

ResponseArrives == \E response \in LiveResponses : FetchResolves(response)

InitLive ==
    /\ raw = Undef
    /\ result = Pending
    /\ PageInit
    /\ FormInit

NextLive ==
    \/ InputChange
    \/ FileChange
    \/ handleSubmitRejected
    \/ handleSubmitLive
    \/ ResponseArrives
    \/ FetchRejects

SpecLive == InitLive /\ [][NextLive]_vars

\* every numeric score of the domain_scores value v lies in [1,4]
NumericScoresInRange(v) ==
    v.t = "object" =>
        \A d \in DOMAIN v.f :
            LET score == GetOpt(v.f[d], "score_1_to_4_or_NA")
            IN  score.t = "number" => (score.n >= 10 /\ score.n <= 40)

\* C7: after any sequence of live submissions every numeric domain score of
\* the evaluation the dashboard holds lies in the closed range [1,4].
C7_HeldScoresInRange ==
    NumericScoresInRange(GetOpt(evaluation, "domain_scores"))

---------------------------------------------------------------------------
(* The mock generator of the demo dashboard *)

\* Math.random() outcomes, in thousandths; none lands on a rounding tie of
\* toFixed(1) in buildMockScore (a multiple of 50 plus 25)
RandomDraws == {0, 260, 999}

\* the n-th value Math.random() returns when the source repeats pattern rnd
Draw(rnd, n) == rnd[((n - 1) % Len(rnd)) + 1]

\* Object.entries(sampleEvaluation.domain_scores): insertion order
DomainOrder ==
    <<"instructional_clarity_and_structure", "student_cognitive_engagement",
      "classroom_management_and_pacing", "classroom_climate_and_tone",
      "questions_feedback_and_checks", "equity_and_student_voice",
      "age_appropriateness_of_language", "subject_specific_pedagogy">>

Min(a, b) == IF a < b THEN a ELSE b
Max(a, b) == IF a > b THEN a ELSE b

\* String.prototype.toLowerCase on the texts the model uses; any other
\* literal chunk of the model holds no upper-case letter
LowerCaseOf(w) ==
    CASE w = "Mathematics" -> "mathematics"
      [] w = "Physics" -> "physics"
      [] w = "Introduction of new concept" -> "introduction of new concept"
      [] w = "Practice / consolidation" -> "practice / consolidation"
      [] w = "Practice" -> "practice"
      [] w = "Upper primary (9-11 years)" -> "upper primary (9-11 years)"
      [] OTHER -> w

ToLowerCase(v) ==
    Str([i \in DOMAIN v.s |->
            IF DOMAIN v.s[i] = {"c"} THEN [c |-> LowerCaseOf(v.s[i].c)] ELSE v.s[i]])

RECURSIVE ConcatChunks(_)
ConcatChunks(parts) ==
    IF parts = <<>> THEN <<>> ELSE Head(parts).s \o ConcatChunks(Tail(parts))

\* a template literal: its pieces joined
Template(parts) == Str(ConcatChunks(parts))

STRENGTH_TEMPLATES(i, overview) ==
    CASE i = 1 -> Template(<<overview.f.teacher_name,
                             Text(" established routines that kept the "),
                             ToLowerCase(overview.f.lesson_type),
                             Text(" flowing smoothly.")>>)
      [] i = 2 -> Template(<<Text("Students in "), ToLowerCase(overview.f.age_group),
                             Text(" at "), overview.f.school_name,
                             Text(" eagerly referenced one another's ideas.")>>)
      [] i = 3 -> Template(<<Text("Questioning connected prior knowledge to the new "),
                             ToLowerCase(overview.f.subject),
                             Text(" concept without losing momentum.")>>)
      [] i = 4 -> Template(<<Text("Transitions at "), overview.f.school_name,
                             Text(" stayed calm, protecting instructional minutes.")>>)
      [] i = 5 -> Template(<<overview.f.teacher_name,
                             Text(" modeled precise academic language throughout the "),
                             ToLowerCase(overview.f.subject), Text(" work time.")>>)

GROWTH_TEMPLATES(i, overview) ==
    CASE i = 1 -> Template(<<Text("Push for complete explanations so students articulate their thinking in "),
                             ToLowerCase(overview.f.subject), Text(".")>>)
      [] i = 2 -> Template(<<Text("Invite quieter voices so every learner contributes during the "),
                             ToLowerCase(overview.f.lesson_type), Text(" block.")>>)
      [] i = 3 -> Text("Use quick written checks between segments to see who is ready to accelerate or who needs scaffolds.")
      [] i = 4 -> Text("Balance teacher talk with collaborative discussion so energy stays high.")
      [] i = 5 -> Template(<<Text("Connect each task back to the stated goal so learners understand why the "),
                             ToLowerCase(overview.f.subject), Text(" concept matters.")>>)

NEXT_STEP_TEMPLATES(i, overview) ==
    CASE i = 1 -> Template(<<Text("Plan two follow-up prompts (e.g., \"Why does that work?\") for tomorrow's "),
                             ToLowerCase(overview.f.subject), Text(" lesson.")>>)
      [] i = 2 -> Template(<<Text("Add a short turn-and-talk so every voice enters the "),
                             ToLowerCase(overview.f.lesson_type), Text(" conversation.")>>)
      [] i = 3 -> Text("Track which students share aloud this week and intentionally call on new voices.")
      [] i = 4 -> Text("Close with a quick exit ticket aligned to the goal and review it before the next class.")
      [] i = 5 -> Text("Ask a student to restate the key idea in their own words before dismissal.")

\* the five templates of each pool, by position
TemplatePool == <<1, 2, 3, 4, 5>>

RemoveAt(seq, i) == SubSeq(seq, 1, i - 1) \o SubSeq(seq, i + 1, Len(seq))

\* the while loop of pickRandomItems; at is the next draw of the random source
RECURSIVE PickLoop(_, _, _, _, _)
PickLoop(pool, selections, count, rnd, at) ==
    IF Len(selections) < count /\ Len(pool) > 0
    THEN LET index == (Draw(rnd, at) * Len(pool)) \div 1000
         IN  PickLoop(RemoveAt(pool, index + 1), Append(selections, pool[index + 1]),
                      count, rnd, at + 1)
    ELSE selections

\* a pick that draws every index on the whole source and removes nothing
pickRandomItems_withReplacement(source, count, rnd, at) ==
    [i \in 1..Min(count, Len(source)) |->
        source[((Draw(rnd, at + i - 1) * Len(source)) \div 1000) + 1]]

pickRandomItems(source, count, rnd, at) ==
    IF count >= Len(source) THEN source ELSE PickLoop(source, <<>>, count, rnd, at)

\* the array source refers to after the call: pool is [...source], a new
\* array, so the splices of the loop never reach source
SourceAfterPick(source, count, rnd, at) == source

\* a score drawn from [2,6) and not clamped
buildMockScore_wide(u) == (4 * u + 2000 + 50) \div 100

\* a score drawn from [1,4)
buildMockScore_fromOne(u) == Min(40, Max(10, (3 * u + 1000 + 50) \div 100))

\* Number((u * 2 + 2).toFixed(1)) clamped to [1,4], in tenths; u in thousandths
buildMockScore(u) ==
    LET rawScore == (2 * u + 2000 + 50) \div 100
    IN  Min(40, Max(10, rawScore))

\* domains rebuilt from the score alone, the sample's texts dropped
randomizeDomainScores_scoreOnly(baseScores, rnd) ==
    Obj([key \in DOMAIN baseScores.f |->
            LET n == CHOOSE i \in DOMAIN DomainOrder : DomainOrder[i] = key
            IN  Obj([score_1_to_4_or_NA |-> Num(buildMockScore(Draw(rnd, n)))])])

\* every domain of baseScores with a fresh score; the n-th domain takes the n-th draw
randomizeDomainScores(baseScores, rnd) ==
    Obj([key \in DOMAIN baseScores.f |->
            LET n == CHOOSE i \in DOMAIN DomainOrder : DomainOrder[i] = key
            IN  ObjectSpread(baseScores.f[key],
                    Obj([score_1_to_4_or_NA |-> Num(buildMockScore(Draw(rnd, n)))]))])

\* overview key -> the metadata key it is read from
OverrideSource ==
    [teacher_name |-> "teacher_name",
     school_name |-> "school_name",
     region |-> "region",
     age_group |-> "age_group",
     subject |-> "subject",
     lesson_type |-> "lesson_type",
     curriculum_goal_inferred_or_given |-> "curriculum_goal"]

\* typeof value === "string" && value.trim()
NonBlankString(value) == value.t = "string" /\ Truthy(Trim(value))

\* overrides that keep the metadata's own key names
extractLessonOverviewOverrides_noRename(metadataRecord) ==
    IF ~Truthy(metadataRecord) \/ TypeOf(metadataRecord) # "object"
    THEN Obj(NoFields)
    ELSE Obj([source \in {OverrideSource[k] : k \in {x \in DOMAIN OverrideSource :
                              NonBlankString(Get(metadataRecord, OverrideSource[x]))}} |->
                 Trim(Get(metadataRecord, source))])

\* overrides that skip the trim
extractLessonOverviewOverrides_untrimmed(metadataRecord) ==
    IF ~Truthy(metadataRecord) \/ TypeOf(metadataRecord) # "object"
    THEN Obj(NoFields)
    ELSE Obj([target \in {k \in DOMAIN OverrideSource :
                              NonBlankString(Get(metadataRecord, OverrideSource[k]))} |->
                 Get(metadataRecord, OverrideSource[target])])

extractLessonOverviewOverrides(metadataRecord) ==
    IF ~Truthy(metadataRecord) \/ TypeOf(metadataRecord) # "object"
    THEN Obj(NoFields)
    ELSE Obj([target \in {k \in DOMAIN OverrideSource :
                              NonBlankString(Get(metadataRecord, OverrideSource[k]))} |->
                 Trim(Get(metadataRecord, OverrideSource[target]))])

\* IEEE 754 double precision: the bits of the fraction
FractionBits == 52

RECURSIVE PowMod(_, _, _)
PowMod(base, n, modulus) ==
    IF n = 0 THEN 1 % modulus
    ELSE IF n % 2 = 0
    THEN LET half == PowMod(base, n \div 2, modulus) IN (half * half) % modulus
    ELSE (base * PowMod(base, n - 1, modulus)) % modulus

RECURSIVE Pow2(_)
Pow2(e) == IF e = 0 THEN 1 ELSE 2 * Pow2(e - 1)

\* A number of at least 1 held in a double is the pair [k, r] that stands for
\* (k * 2^52 + r) / (10 * 2^52): k tenths and r units of 2^-52 / 10 of
\* representation error, with |r| far below 2^52.
Zero == [k |-> 0, r |-> 0]

\* the e with 2^e <= x < 2^(e+1)
Binade(x) ==
    CHOOSE e \in 0..6 :
        /\ x.k > 10 * Pow2(e) \/ (x.k = 10 * Pow2(e) /\ x.r >= 0)
        /\ ~(x.k > 10 * Pow2(e + 1) \/ (x.k = 10 * Pow2(e + 1) /\ x.r >= 0))

\* the nearest double of the exact value x, ties to even: the doubles of
\* binade e are the multiples of 2^(e-52), that is of 10 * 2^e units
RoundToDouble(x) ==
    IF x = Zero THEN Zero
    ELSE LET spacing == 10 * Pow2(Binade(x))
             rest == (x.k * PowMod(2, FractionBits, spacing) + x.r) % spacing
             odd == ((x.k * PowMod(2, FractionBits, 2 * spacing) + x.r) % (2 * spacing))
                        >= spacing
         IN  IF 2 * rest < spacing \/ (2 * rest = spacing /\ ~odd)
             THEN [k |-> x.k, r |-> x.r - rest]
             ELSE [k |-> x.k, r |-> x.r + spacing - rest]

\* the double a number with one decimal (n tenths) is held in
DoubleOf(n) == RoundToDouble([k |-> n, r |-> 0])

\* sum + score
DoubleAdd(a, b) == RoundToDouble([k |-> a.k + b.k, r |-> a.r + b.r])

\* Object.values(domainScores): the keys in insertion order
ValuesInOrder(domainScores) ==
    LET keys == SelectSeq(DomainOrder, LAMBDA key : key \in DOMAIN domainScores.f)
    IN  [i \in DOMAIN keys |-> domainScores.f[keys[i]]]

RECURSIVE Reduce(_, _)
Reduce(scores, sum) ==
    IF scores = <<>> THEN sum
    ELSE Reduce(Tail(scores), DoubleAdd(sum, DoubleOf(Head(scores).n)))

\* the mean of the numeric scores, as the double total and the count it is
\* divided by; 0 when there is no numeric score
calculateAverageFromDomainScores(domainScores) ==
    LET values == ValuesInOrder(domainScores)
        scores == [i \in DOMAIN values |-> values[i].f.score_1_to_4_or_NA]
        numericScores == SelectSeq(scores, LAMBDA score : score.t = "number")
    IN  IF Len(numericScores) = 0 THEN [total |-> Zero, count |-> 1]
        ELSE [total |-> Reduce(numericScores, Zero), count |-> Len(numericScores)]

\* averageScore >= hundredths / 100, for the thresholds 3.5, 3 and 2.25: each
\* is a double of binade 1 with an even fraction, so total / count rounds to
\* at least the threshold exactly when its exact value is no less than the
\* threshold minus 2^-52
AtLeast(averageScore, hundredths) ==
    LET total == averageScore.total
        count == averageScore.count
    IN  \/ 10 * total.k > count * hundredths
        \/ 10 * total.k = count * hundredths /\ total.r >= -(10 * count)

describeScoreBand(averageScore) ==
    IF AtLeast(averageScore, 350) THEN "Exemplary"
    ELSE IF AtLeast(averageScore, 300) THEN "Effective"
    ELSE IF AtLeast(averageScore, 225) THEN "Developing"
    ELSE "Unsatisfactory"

\* averageScore.toFixed(1), in tenths: the n with n / 10 nearest the double,
\* the larger n on a tie; the count is 8 in every call, so total / count is exact
ToFixedOne(averageScore) ==
    LET total == averageScore.total
        count == averageScore.count
        n == (2 * total.k + count) \div (2 * count)
    IN  IF total.r < 0 /\ (2 * total.k + count) % (2 * count) = 0 THEN n - 1 ELSE n

FixedOneText(tenths) ==
    <<[c |-> ToString(tenths \div 10)], [c |-> "."], [c |-> ToString(tenths % 10)]>>

buildMockOverallRating(band, averageScore) ==
    Str(<<[c |-> band], [c |-> " (mock avg ~ "]>> \o FixedOneText(ToFixedOne(averageScore))
        \o <<[c |-> " / 4)"]>>)

\* an impression with the same tone for every band
buildOverallImpression_oneTone(lessonOverview, band) ==
    Template(<<lessonOverview.f.teacher_name, Text(" led a "),
               ToLowerCase(lessonOverview.f.subject), Text(" lesson at "),
               lessonOverview.f.school_name, Text(" in "), lessonOverview.f.region,
               Text(" that earned a solid rating thanks to clear modeling and upbeat pacing.")>>)

buildOverallImpression(lessonOverview, band) ==
    LET subjectLabel == ToLowerCase(lessonOverview.f.subject)
        base == <<lessonOverview.f.teacher_name, Text(" led a "), subjectLabel,
                  Text(" lesson at "), lessonOverview.f.school_name, Text(" in "),
                  lessonOverview.f.region>>
    IN  CASE band = "Exemplary" ->
                Template(base \o <<Text(" that crackled with student ownership and precise academic language.")>>)
          [] band = "Effective" ->
                Template(base \o <<Text(" that earned a solid rating thanks to clear modeling and upbeat pacing.")>>)
          [] band = "Developing" ->
                Template(base \o <<Text(" that showed promising routines but still needs deeper student reasoning.")>>)
          [] OTHER ->
                Template(base \o <<Text(" that now guides the next round of targeted coaching support.")>>)

\* a generator that reports no insufficient-evidence domains for mock data
generateMockEvaluation_noLimits(metadataRecord, rnd) ==
    LET randomizedDomainScores == randomizeDomainScores(sampleDomainScores, rnd)
        overrides == extractLessonOverviewOverrides(metadataRecord)
        lessonOverview == ObjectSpread(sampleLessonOverview, overrides)
        averageScore == calculateAverageFromDomainScores(randomizedDomainScores)
        performanceBand == describeScoreBand(averageScore)
        first == Len(DomainOrder) + 1
        strengths == pickRandomItems(TemplatePool, 2, rnd, first)
        growth == pickRandomItems(TemplatePool, 2, rnd, first + 2)
        nextSteps == pickRandomItems(TemplatePool, 3, rnd, first + 4)
    IN  Obj([lesson_overview |->
                 ObjectSpread(lessonOverview,
                     Obj([overall_impression |->
                              buildOverallImpression(lessonOverview, performanceBand)])),
             domain_scores |-> randomizedDomainScores,
             global_rating |->
                 Obj([overall_score_average_or_band |->
                          buildMockOverallRating(performanceBand, averageScore),
                      top_strengths |->
                          Arr([i \in DOMAIN strengths |->
                                  STRENGTH_TEMPLATES(strengths[i], lessonOverview)]),
                      priority_areas_for_growth |->
                          Arr([i \in DOMAIN growth |->
                                  GROWTH_TEMPLATES(growth[i], lessonOverview)]),
                      concrete_next_steps_for_teacher |->
                          Arr([i \in DOMAIN nextSteps |->
                                  NEXT_STEP_TEMPLATES(nextSteps[i], lessonOverview)])]),
             limits_of_inference |->
                 ObjectSpread(sampleLimitsOfInference,
                     Obj([insufficient_evidence_domains |-> Arr(<<>>)]))])

\* rnd is the random source the call draws from, first the scores in domain order
generateMockEvaluation(metadataRecord, rnd) ==
    LET randomizedDomainScores == randomizeDomainScores(sampleDomainScores, rnd)
        overrides == extractLessonOverviewOverrides(metadataRecord)
        lessonOverview == ObjectSpread(sampleLessonOverview, overrides)
        averageScore == calculateAverageFromDomainScores(randomizedDomainScores)
        performanceBand == describeScoreBand(averageScore)
        first == Len(DomainOrder) + 1
        strengths == pickRandomItems(TemplatePool, 2, rnd, first)
        growth == pickRandomItems(TemplatePool, 2, rnd, first + 2)
        nextSteps == pickRandomItems(TemplatePool, 3, rnd, first + 4)
    IN  Obj([lesson_overview |->
                 ObjectSpread(lessonOverview,
                     Obj([overall_impression |->
                              buildOverallImpression(lessonOverview, performanceBand)])),
             domain_scores |-> randomizedDomainScores,
             global_rating |->
                 Obj([overall_score_average_or_band |->
                          buildMockOverallRating(performanceBand, averageScore),
                      top_strengths |->
                          Arr([i \in DOMAIN strengths |->
                                  STRENGTH_TEMPLATES(strengths[i], lessonOverview)]),
                      priority_areas_for_growth |->
                          Arr([i \in DOMAIN growth |->
                                  GROWTH_TEMPLATES(growth[i], lessonOverview)]),
                      concrete_next_steps_for_teacher |->
                          Arr([i \in DOMAIN nextSteps |->
                                  NEXT_STEP_TEMPLATES(nextSteps[i], lessonOverview)])]),
             limits_of_inference |-> sampleLimitsOfInference])

getMetadataString(metadataRecord, key) ==
    IF ~Truthy(metadataRecord) \/ TypeOf(metadataRecord) # "object" THEN Null
    ELSE LET value == Get(metadataRecord, key)
         IN  IF NonBlankString(value) THEN Trim(value) ELSE Null

\* at is the draw of the random source that picks the snippet
buildMockTranscript(metadataRecord, rnd, at) ==
    LET teacherName == Nullish(getMetadataString(metadataRecord, "teacher_name"),
                               sampleLessonOverview.f.teacher_name)
        subject == ToLowerCase(Nullish(getMetadataString(metadataRecord, "subject"),
                                       sampleLessonOverview.f.subject))
        lessonType == ToLowerCase(Nullish(getMetadataString(metadataRecord, "lesson_type"),
                                          sampleLessonOverview.f.lesson_type))
        ageGroup == Nullish(getMetadataString(metadataRecord, "age_group"),
                            sampleLessonOverview.f.age_group)
        transcriptSnippets ==
            <<Template(<<teacherName, Text(": Good morning "), ageGroup,
                         Text("! Today we're diving into "), subject,
                         Text(". First, jot down one thing you already know.\nStudent: I remember splitting shapes into equal parts!\n"),
                         teacherName, Text(": Great start-keep those connections coming.")>>),
              Template(<<teacherName, Text(": During this "), lessonType,
                         Text(", listen for a classmate who explains their thinking clearly. You'll share it in a moment.\nStudent: I noticed she compared the two strategies.\n"),
                         teacherName, Text(": Exactly-naming the strategy helps us remember it.")>>),
              Template(<<teacherName, Text(": Take thirty seconds to think silently about this "),
                         subject,
                         Text(" question, then we'll pair up.\nStudents: (soft chatter)\n"),
                         teacherName,
                         Text(": Go ahead and talk to your partner-make sure both of you can explain the idea.")>>),
              Template(<<teacherName,
                         Text(": I heard strong ideas in that last share-out. Who can build on what Martina said about today's goal?\nStudent: She said we needed to connect it to real life.\n"),
                         teacherName, Text(": Perfect link-let's capture that on the board.")>>)>>
    IN  pickRandomItems(transcriptSnippets, 1, rnd, at)[1]

extractMetadataFromFormData(formData) ==
    LET metadataField == formData.metadata
    IN  IF TypeOf(metadataField) # "string" THEN Null
        ELSE LET parsed == JSONparse(metadataField)
             IN  IF IsThrown(parsed) THEN Null
                 ELSE IF Truthy(parsed) /\ TypeOf(parsed) = "object" THEN parsed
                 ELSE Null

---------------------------------------------------------------------------
(* DashboardPage in demo mode *)

\* length of the repeating pattern of Math.random() outcomes on the dashboard
DemoPatternLen == 1

StreamsOver(draws, maxLen) == UNION {[1..n -> draws] : n \in 1..maxLen}

RandomStreams(maxLen) == StreamsOver(RandomDraws, maxLen)

DemoSuccessMessage == Text("Lesson evaluated with demo data.")

\* handleLessonUpload up to the await of the timer
StartDemoUpload(formData) ==
    /\ isSubmitting' = TRUE
    /\ feedback' = Null
    /\ request' = [pc |-> "delay", metadataPayload |-> extractMetadataFromFormData(formData)]
    /\ UNCHANGED <<evaluation, latestTranscript, resolvedMetadata>>

\* handleSubmit with a file chosen
handleSubmitDemo ==
    /\ SubmitEnabled
    /\ audioFile # NoFile
    /\ StartDemoUpload(BuildFormData)
    /\ FeedbackEffect(Null)
    /\ UNCHANGED <<metadata, localError, normVars, sampleObject>>

\* a generator that assigns the fresh scores into the sample's own domains
SampleAfterGenerate_inPlace(sample, mocked) ==
    ObjectSpread(sample, Obj([domain_scores |-> mocked.f.domain_scores]))

\* the sample object after generateMockEvaluation returned mocked:
\* randomizeDomainScores builds every domain with a spread into a new object
\* and the overview is a spread too, so no property of the sample is assigned
SampleAfterGenerate(sample, mocked) == sample

\* MOCK_EVALUATION_DELAY_MS elapsed: the rest of handleLessonUpload. Nothing
\* between the await and the success feedback throws, so the catch block is
\* never entered.
DelayElapses(rnd) ==
    /\ request.pc = "delay"
    /\ LET metadataPayload == request.metadataPayload
           mockedEvaluation == generateMockEvaluation(metadataPayload, rnd)
       IN  /\ UploadSucceeded(mockedEvaluation,
                              buildMockTranscript(metadataPayload, rnd, Len(DomainOrder) + 8),
                              Nullish(metadataPayload, Null),
                              DemoSuccessMessage)
           /\ sampleObject' = SampleAfterGenerate(sampleObject, mockedEvaluation)
    /\ isSubmitting' = FALSE
    /\ request' = NoRequest
    /\ UNCHANGED <<metadata, localError, normVars>>

TimerFires == \E rnd \in RandomStreams(DemoPatternLen) : DelayElapses(rnd)

InitDemo ==
    /\ PageInit
    /\ FormInit
    /\ request = NoRequest
    /\ raw = Undef
    /\ result = Pending

NextDemo ==
    \/ InputChange
    \/ FileChange
    \/ handleSubmitRejected
    \/ handleSubmitDemo
    \/ TimerFires

SpecDemo == InitDemo /\ [][NextDemo]_vars

---------------------------------------------------------------------------
(* generateMockEvaluation applied to every metadata record *)

\* length of the repeating pattern of Math.random() outcomes
MockPatternLen == 2

TeacherNameOptions ==
    {Absent, EmptyString, Str(<<Blank, Blank>>), Null,
     Str(<<Blank, [c |-> "Mr."], Blank, [c |-> "Dvorak"], Blank>>)}

SubjectOptions ==
    {Absent, Text("Mathematics"), Str(<<Blank, [c |-> "Physics"]>>), Str(<<Blank>>), Num(30)}

CurriculumGoalOptions ==
    {Absent, EmptyString, Str(<<Blank>>), Bool(TRUE),
     Text("Students measure density"),
     Str(<<Blank, [c |-> "Students measure density"], Blank, Blank>>)}

LessonTypeOptions == {Absent, Text("Practice"), Arr(<<Text("Practice")>>)}

\* keys the resolver does not read
ExtraOptions ==
    {NoFields,
     [language_of_instruction |-> Text("Czech")],
     [curriculum_goal_inferred_or_given |-> Text("Ignored goal"),
      overall_impression |-> Text("Ignored impression")]}

MetadataObject(tn, sj, cg, lt, extra) ==
    LET given == [teacher_name |-> tn, subject |-> sj, curriculum_goal |-> cg,
                  lesson_type |-> lt]
        named == {x \in DOMAIN given : given[x] # Absent}
    IN  Obj([k \in named \cup DOMAIN extra |->
                IF k \in named THEN given[k] ELSE extra[k]])

MetadataInputs ==
    {Null, Text("teacher_name"), Num(10), Arr(<<>>),
     Arr(<<Obj([subject |-> Text("Physics")])>>), Obj(DEFAULT_METADATA)}
    \cup {MetadataObject(tn, sj, cg, lt, extra) :
            tn \in TeacherNameOptions, sj \in SubjectOptions,
            cg \in CurriculumGoalOptions, lt \in LessonTypeOptions,
            extra \in ExtraOptions}

GenerateMock(rnd) ==
    /\ result = Pending
    /\ result' = generateMockEvaluation(raw, rnd)
    /\ UNCHANGED <<raw, pageVars, formVars, request>>

InitMock ==
    /\ raw \in MetadataInputs
    /\ result = Pending
    /\ PageInit
    /\ FormInit

NextMock == \E rnd \in RandomStreams(MockPatternLen) : GenerateMock(rnd)

SpecMock == InitMock /\ [][NextMock]_vars

---------------------------------------------------------------------------
(* Metadata resolution *)

\* a demo submission has completed and the page holds its outcome
DemoOutcomeHeld == resolvedMetadata # Null

\* the overview key a metadata field is resolved into, "" when there is none
OverviewKeyOf(field) ==
    IF \E k \in DOMAIN OverrideSource : OverrideSource[k] = field
    THEN CHOOSE k \in DOMAIN OverrideSource : OverrideSource[k] = field
    ELSE ""

\* what the page holds for a metadata field after a demo submission: the
\* overview's value where the overview has the field, else the entry of the
\* record shown as "Metadata (after defaults)"
ResolvedValue(field) ==
    IF OverviewKeyOf(field) # ""
    THEN Get(Get(evaluation, "lesson_overview"), OverviewKeyOf(field))
    ELSE GetOpt(resolvedMetadata, field)

FixedDefault(field) ==
    IF OverviewKeyOf(field) # ""
    THEN sampleLessonOverview.f[OverviewKeyOf(field)]
    ELSE DEFAULT_METADATA[field]

IsTrimmedInputOrDefault(value, input, default) ==
    /\ IsString(value)
    /\ value # EmptyString
    /\ \/ value = default
       \/ IsString(input) /\ value = Trim(input)

\* C8: after a demo submission each of the eight metadata fields is held as
\* a non-empty string that is the submitted value trimmed or the fixed default
C8_EightFieldsResolved ==
    DemoOutcomeHeld =>
        \A field \in MetadataKeys :
            IsTrimmedInputOrDefault(ResolvedValue(field),
                                    GetOpt(resolvedMetadata, field),
                                    FixedDefault(field))

Generated == result # Pending

MockOverview == Get(result, "lesson_overview")

OmitsKey(v, key) == v.t = "object" /\ key \notin DOMAIN v.f

\* C9 as stated: with teacher_name omitted and a subject that is non-empty
\* after trimming, the mock overview names "Ms. Novak" and keeps the subject
C9_OmittedTeacherIsMsNovak ==
    (Generated /\ OmitsKey(raw, "teacher_name") /\ NonBlankString(Get(raw, "subject")))
        => /\ Get(MockOverview, "teacher_name") = DEFAULT_METADATA.teacher_name
           /\ Get(MockOverview, "subject") = Trim(Get(raw, "subject"))

\* C9 amended: every overview field whose metadata key is omitted, not a
\* string or blank equals the sample overview's value (the teacher name is
\* the sample's, not "Ms. Novak"), and every field supplied as a string that
\* is non-empty after trimming equals its trimmed input
C9_OmittedFieldsTakeSampleValue ==
    (Generated /\ raw.t = "object") =>
        \A k \in DOMAIN OverrideSource :
            LET input == Get(raw, OverrideSource[k])
            IN  Get(MockOverview, k) =
                    IF NonBlankString(input) THEN Trim(input)
                    ELSE sampleLessonOverview.f[k]

\* teacher_name omitted, a padded subject and a padded curriculum goal supplied
C9_Witness ==
    /\ Generated
    /\ OmitsKey(raw, "teacher_name")
    /\ NonBlankString(Get(raw, "subject"))
    /\ Get(raw, "subject") # Trim(Get(raw, "subject"))
    /\ Get(MockOverview, "subject") = Text("Physics")
    /\ Get(MockOverview, "teacher_name") = sampleLessonOverview.f.teacher_name

\* C10: a curriculum_goal that is a string non-empty after trimming is the
\* overview's curriculum_goal_inferred_or_given, trimmed, and the overview
\* has no key curriculum_goal
C10_GoalRenamed ==
    Generated =>
        /\ "curriculum_goal" \notin DOMAIN MockOverview.f
        /\ NonBlankString(GetOpt(raw, "curriculum_goal")) =>
               Get(MockOverview, "curriculum_goal_inferred_or_given")
                   = Trim(Get(raw, "curriculum_goal"))

\* a padded goal was supplied and the overview holds it trimmed
C10_Witness ==
    /\ Generated
    /\ NonBlankString(GetOpt(raw, "curriculum_goal"))
    /\ Get(raw, "curriculum_goal") # Trim(Get(raw, "curriculum_goal"))
    /\ Get(MockOverview, "curriculum_goal_inferred_or_given") = Text("Students measure density")

---------------------------------------------------------------------------
(* The scores of a mock payload *)

MockDomainScores == Get(result, "domain_scores")

MockScore(domain) == Get(MockDomainScores.f[domain], "score_1_to_4_or_NA")

\* C11: every domain score of a payload generateMockEvaluation returns is a
\* number in [1,4], whatever the random source yields
C11_MockScoresInRange ==
    Generated =>
        \A domain \in DOMAIN MockDomainScores.f :
            /\ MockScore(domain).t = "number"
            /\ MockScore(domain).n >= 10
            /\ MockScore(domain).n <= 40

\* a payload holding both ends of what the random source can give
C11_Witness ==
    /\ Generated
    /\ DOMAIN MockDomainScores.f = DOMAIN sampleDomainScores.f
    /\ \E domain \in DOMAIN MockDomainScores.f : MockScore(domain) = Num(40)
    /\ \E domain \in DOMAIN MockDomainScores.f : MockScore(domain) = Num(20)

---------------------------------------------------------------------------
(* calculateAverageFromDomainScores and describeScoreBand applied to domain scores *)

\* length of the repeating pattern of Math.random() outcomes behind the scores
BandPatternLen == 4

\* Math.random() outcomes giving the scores 2.0, 2.2, 2.4, 3.5 and 4.0
BandDraws == {0, 100, 200, 760, 999}

NotApplicable == Text("NA")

\* domain scores as randomizeDomainScores yields them, and the same with the
\* scores of some domains not applicable
BandInputs ==
    LET generated == {randomizeDomainScores(sampleDomainScores, rnd) :
                          rnd \in StreamsOver(BandDraws, BandPatternLen)}
        firstHalf == {DomainOrder[i] : i \in 1..4}
    IN  generated
        \cup {Obj([d \in DOMAIN g.f |->
                      IF d \in firstHalf
                      THEN ObjectSpread(g.f[d], Obj([score_1_to_4_or_NA |-> NotApplicable]))
                      ELSE g.f[d]]) : g \in generated}
        \cup {Obj([d \in DOMAIN sampleDomainScores.f |->
                      ObjectSpread(sampleDomainScores.f[d],
                                   Obj([score_1_to_4_or_NA |-> NotApplicable]))])}

ClassifyScores ==
    /\ result = Pending
    /\ result' = [band |-> describeScoreBand(calculateAverageFromDomainScores(raw))]
    /\ UNCHANGED <<raw, pageVars, formVars, request>>

InitBand ==
    /\ raw \in BandInputs
    /\ result = Pending
    /\ PageInit
    /\ FormInit

NextBand == ClassifyScores

SpecBand == InitBand /\ [][NextBand]_vars

Classified == result # Pending

NumericDomains(domainScores) ==
    {d \in DOMAIN domainScores.f : domainScores.f[d].f.score_1_to_4_or_NA.t = "number"}

RECURSIVE TenthsTotal(_, _)
TenthsTotal(domainScores, domains) ==
    IF domains = {} THEN 0
    ELSE LET d == CHOOSE x \in domains : TRUE
         IN  domainScores.f[d].f.score_1_to_4_or_NA.n
                 + TenthsTotal(domainScores, domains \ {d})

\* the band of the table for the mean total / count, total in tenths
TableBand(total, count) ==
    IF 10 * total >= 350 * count THEN "Exemplary"
    ELSE IF 10 * total >= 300 * count THEN "Effective"
    ELSE IF 10 * total >= 225 * count THEN "Developing"
    ELSE "Unsatisfactory"

\* C12: the band is the one the table gives for the mean of the numeric
\* scores, the boundaries 3.5, 3.0 and 2.25 belonging to the upper band
C12_BandFollowsTable ==
    (Classified /\ NumericDomains(raw) # {}) =>
        result.band = TableBand(TenthsTotal(raw, NumericDomains(raw)),
                                Cardinality(NumericDomains(raw)))

---------------------------------------------------------------------------
(* Failed requests *)

\* the decoded body of a response, undefined when it is not JSON
DecodedBody(response) ==
    LET parsed == JSONparse(response.text)
    IN  IF IsThrown(parsed) THEN Undef ELSE parsed

HasErrorString(response) == IsString(GetOpt(DecodedBody(response), "error"))

HasNoErrorField(response) == GetOpt(DecodedBody(response), "error") = Undef

\* the handler ran to its end on response and left an error message
EndsWithError(response, message) ==
    FetchResolves(response) =>
        /\ feedback' = ErrorFeedback(message)
        /\ isSubmitting' = FALSE
        /\ request' = NoRequest

\* C13 as stated: a non-2xx response with an error string E in its JSON body
\* ends the submission with error feedback E, one with an unparsable body or
\* no error field with the generic message, and the handler always completes
C13_ServerErrorShown ==
    [][\A response \in LiveResponses :
          ~ResponseOk(response) =>
              /\ HasErrorString(response) =>
                     EndsWithError(response, Get(DecodedBody(response), "error"))
              /\ HasNoErrorField(response) =>
                     EndsWithError(response, RequestFailedMessage(response.status))]_vars

\* C13 amended: the error string is shown when it is not empty; an empty one,
\* like a missing one, gives the generic message
C13_NonEmptyServerErrorShown ==
    [][\A response \in LiveResponses :
          ~ResponseOk(response) =>
              /\ (HasErrorString(response) /\ Truthy(Get(DecodedBody(response), "error"))) =>
                     EndsWithError(response, Get(DecodedBody(response), "error"))
              /\ (HasNoErrorField(response)
                     \/ GetOpt(DecodedBody(response), "error") = EmptyString) =>
                     EndsWithError(response, RequestFailedMessage(response.status))]_vars

\* a failed request ended with the server's own message
C13_Witness ==
    /\ feedback = ErrorFeedback(Text("transcription failed"))
    /\ ~isSubmitting
    /\ request = NoRequest

---------------------------------------------------------------------------
(* One submission at a time *)

\* a handleLessonUpload call is waiting for its timer or its fetch
InFlight == request # NoRequest

\* a handleLessonUpload call starts in this step
UploadStarts == request' # NoRequest /\ request' # request

\* C14: while a request is in flight isSubmitting is true and the submit
\* control is disabled, and no handleLessonUpload call starts before the one
\* in flight has resolved or rejected
C14_OneRequestInFlight ==
    /\ [](InFlight => (isSubmitting /\ ~SubmitEnabled))
    /\ [][UploadStarts => ~InFlight]_vars

\* a request is in flight with a file still chosen in the form
C14_Witness ==
    /\ InFlight
    /\ isSubmitting
    /\ audioFile # NoFile

---------------------------------------------------------------------------
(* A submit with no audio file *)

\* C15: a submit with no file attached sets the inline message and nothing
\* else: no handleLessonUpload call, no request, and isSubmitting, feedback
\* and the held evaluation as they were
C15_NoAudioRejectedInForm ==
    /\ [][handleSubmitRejected =>
              /\ localError' = AttachFileMessage
              /\ UNCHANGED <<request, isSubmitting, feedback, evaluation,
                             latestTranscript, resolvedMetadata>>]_vars
    /\ [][UploadStarts => audioFile # NoFile]_vars

\* the inline message is shown and nothing was sent
C15_Witness ==
    /\ localError = AttachFileMessage
    /\ audioFile = NoFile
    /\ request = NoRequest
    /\ ~isSubmitting
    /\ feedback = Null
    /\ evaluation = sampleEvaluation

---------------------------------------------------------------------------
(* What a successful live upload leaves on the page *)

\* handleLessonUpload ran to its end on a 2xx response and reported success
Succeeds(response) ==
    /\ ResponseOk(response)
    /\ FetchResolves(response)
    /\ feedback' = SuccessFeedback(LiveSuccessMessage)

\* payload?.evaluation of the response
ResponseEvaluation(response) == GetOpt(parseResponse(response), "evaluation")

\* transcript and metadata are the response's ("" and null where it has none)
TakenFromResponse(response) ==
    /\ latestTranscript' = Nullish(GetOpt(parseResponse(response), "transcript"), EmptyString)
    /\ resolvedMetadata' = Nullish(GetOpt(parseResponse(response), "metadata"), Null)

HasAllSections(candidate) ==
    /\ candidate.t = "object"
    /\ \A k \in SectionKeys : Truthy(Get(candidate, k))

\* held is candidate with the fields its sections lack taken from the sample
CompletedBySample(held, candidate) ==
    /\ held.f.domain_scores = candidate.f.domain_scores
    /\ IsMergeOver(held.f.lesson_overview, sampleLessonOverview, candidate.f.lesson_overview)
    /\ IsMergeOver(held.f.global_rating, sampleGlobalRating, candidate.f.global_rating)
    /\ IsMergeOver(held.f.limits_of_inference, sampleLimitsOfInference,
                   candidate.f.limits_of_inference)

EvaluationUnusable(candidate) ==
    \/ candidate.t \in {"undefined", "null"}
    \/ candidate.t = "object" /\ ~HasAllSections(candidate)
    \/ candidate.t = "string" /\ IsThrown(JSONparse(candidate))

---------------------------------------------------------------------------
(* When the held payload changes *)

HeldPayload == <<evaluation, latestTranscript, resolvedMetadata>>

\* the call in flight ends in this step with success feedback
CompletesSuccessfully ==
    /\ InFlight
    /\ request' = NoRequest
    /\ feedback' # Null
    /\ feedback'.type = "success"

\* C18: evaluation, transcript and metadata start as (sample, "", null) and
\* change only in the step that completes a submission successfully; failed
\* submissions, rejected submits, file selections and metadata edits leave
\* them as they are
C18_HeldChangesOnlyOnSuccess ==
    /\ HeldPayload = <<sampleEvaluation, EmptyString, Null>>
    /\ [][HeldPayload' # HeldPayload => CompletesSuccessfully]_vars

\* a submission failed after an earlier one succeeded, and the page still
\* holds what the earlier one brought
C18_Witness ==
    /\ feedback # Null
    /\ feedback.type = "error"
    /\ evaluation # sampleEvaluation
    /\ latestTranscript = backendTranscript
    /\ resolvedMetadata = backendMetadata

---------------------------------------------------------------------------
(* Every submission finishes *)

\* the network answers or fails: a pending fetch does not stay pending
SpecLiveFair == SpecLive /\ WF_vars(ResponseArrives \/ FetchRejects)

Finished ==
    /\ ~isSubmitting
    /\ feedback # Null
    /\ feedback.type \in {"success", "error"}

\* C19: a started submission ends with isSubmitting false and success or
\* error feedback, and only the end of the call in flight takes isSubmitting
\* back to false
C19_SubmissionFinishes ==
    /\ isSubmitting ~> Finished
    /\ [][(isSubmitting /\ ~isSubmitting') => (InFlight /\ request' = NoRequest /\ Finished')]_vars

\* a submission whose fetch was rejected has finished
C19_Witness ==
    /\ Finished
    /\ feedback = ErrorFeedback(NetworkErrorMessage)
    /\ request = NoRequest

---------------------------------------------------------------------------
(* The kind of number a mock score is *)

\* C20 as stated: every score of a mock payload is an integer from 1 to 4 or
\* the not-applicable sentinel
C20_MockScoresAreIntegers ==
    Generated =>
        \A domain \in DOMAIN MockDomainScores.f :
            \/ MockScore(domain) = NotApplicable
            \/ /\ MockScore(domain).t = "number"
               /\ MockScore(domain).n \in {10, 20, 30, 40}

\* C20 amended: every score of a mock payload is a number with one decimal
\* from 2.0 to 4.0, never the sentinel and not always an integer
C20_MockScoresAreOneDecimal ==
    Generated =>
        \A domain \in DOMAIN MockDomainScores.f :
            /\ MockScore(domain).t = "number"
            /\ MockScore(domain).n \in 20..40

\* a mock payload with a score of 2.5
C20_Witness ==
    /\ Generated
    /\ \E domain \in DOMAIN MockDomainScores.f : MockScore(domain) = Num(25)

---------------------------------------------------------------------------
(* The sample payload as the template of a mock payload *)

ScoreKey == "score_1_to_4_or_NA"

\* C21: a mock payload has the four sections, its domain_scores has exactly
\* the sample's domain keys, and every domain carries the sample's evidence,
\* suggestions and subject_specific_notes: only the score is generated
C21_SampleIsTemplate ==
    Generated =>
        /\ DOMAIN result.f = SectionKeys
        /\ DOMAIN MockDomainScores.f = DOMAIN sampleDomainScores.f
        /\ \A domain \in DOMAIN sampleDomainScores.f :
              LET mocked == MockDomainScores.f[domain]
                  sample == sampleDomainScores.f[domain]
              IN  /\ mocked.t = "object"
                  /\ DOMAIN mocked.f = DOMAIN sample.f
                  /\ \A k \in DOMAIN sample.f \ {ScoreKey} : mocked.f[k] = sample.f[k]

\* a mock payload whose scores all differ from the sample's while the notes of
\* the subject-specific domain are the sample's
C21_Witness ==
    /\ Generated
    /\ \A domain \in DOMAIN sampleDomainScores.f :
          MockScore(domain) # sampleDomainScores.f[domain].f[ScoreKey]
    /\ MockDomainScores.f.subject_specific_pedagogy.f.subject_specific_notes
           = Text("For upper primary mathematics")

---------------------------------------------------------------------------
(* pickRandomItems applied to sources and counts, and the lists of a mock payload *)

\* the largest count asked of pickRandomItems
MaxPickCount == 6

\* length of the repeating pattern of Math.random() outcomes
PickPatternLen == 2

\* Math.random() outcomes that reach the first, the second, the middle and
\* the last index of a pool
PickDraws == {0, 260, 500, 999}

PickCall(source, count) == [t |-> "pick", source |-> source, count |-> count]

\* sources of distinct items, from the empty array to a pool of five
PickInputs ==
    {PickCall(SubSeq(TemplatePool, 1, n), count) :
        n \in 0..Len(TemplatePool), count \in 0..MaxPickCount}

PickMetadata ==
    {Null, Obj(DEFAULT_METADATA),
     MetadataObject(Str(<<Blank, [c |-> "Mr."], Blank, [c |-> "Dvorak"], Blank>>),
                    Str(<<Blank, [c |-> "Physics"]>>), Absent, Text("Practice"), NoFields)}

Pick(rnd) ==
    /\ raw.t = "pick"
    /\ result = Pending
    /\ result' = [selections |-> pickRandomItems(raw.source, raw.count, rnd, 1),
                  source |-> SourceAfterPick(raw.source, raw.count, rnd, 1)]
    /\ UNCHANGED <<raw, pageVars, formVars, request>>

GenerateLists(rnd) ==
    /\ raw.t # "pick"
    /\ GenerateMock(rnd)

InitPick ==
    /\ raw \in PickInputs \cup PickMetadata
    /\ result = Pending
    /\ PageInit
    /\ FormInit

NextPick ==
    \E rnd \in StreamsOver(PickDraws, PickPatternLen) :
        \/ Pick(rnd)
        \/ GenerateLists(rnd)

SpecPick == InitPick /\ [][NextPick]_vars

Picked == result # Pending /\ raw.t = "pick"

ListsGenerated == result # Pending /\ raw.t # "pick"

Items(seq) == {seq[i] : i \in DOMAIN seq}

PairwiseDistinct(seq) == \A i, j \in DOMAIN seq : i # j => seq[i] # seq[j]

\* list holds count distinct texts, each a template of the pool filled in
\* with the payload's overview
DrawnFromPool(list, count, Pool(_, _)) ==
    /\ list.t = "array"
    /\ Len(list.a) = count
    /\ PairwiseDistinct(list.a)
    /\ Items(list.a) \subseteq {Pool(i, MockOverview) : i \in Items(TemplatePool)}

\* C22: a mock payload has 2 strengths, 2 growth areas and 3 next steps, each
\* list made of distinct templates of its own pool of five; pickRandomItems
\* returns min(count, |source|) pairwise distinct elements of source and
\* leaves source as it was
C22_ListsDrawnWithoutReplacement ==
    /\ ListsGenerated =>
           LET rating == Get(result, "global_rating")
           IN  /\ DrawnFromPool(Get(rating, "top_strengths"), 2, STRENGTH_TEMPLATES)
               /\ DrawnFromPool(Get(rating, "priority_areas_for_growth"), 2, GROWTH_TEMPLATES)
               /\ DrawnFromPool(Get(rating, "concrete_next_steps_for_teacher"), 3,
                                NEXT_STEP_TEMPLATES)
    /\ Picked =>
           /\ Len(result.selections) = Min(raw.count, Len(raw.source))
           /\ Items(result.selections) \subseteq Items(raw.source)
           /\ PairwiseDistinct(result.selections)
           /\ result.source = raw.source

\* three of five items were picked out of source order
C22_Witness ==
    /\ Picked
    /\ raw.source = TemplatePool
    /\ raw.count = 3
    /\ result.selections = <<5, 1, 4>>
    /\ result.source = TemplatePool

---------------------------------------------------------------------------
(* The tone of the overall impression *)

Bands == {"Exemplary", "Effective", "Developing", "Unsatisfactory"}

\* the closing words of the impression, by band
ImpressionTone(band) ==
    CASE band = "Exemplary" ->
            " that crackled with student ownership and precise academic language."
      [] band = "Effective" ->
            " that earned a solid rating thanks to clear modeling and upbeat pacing."
      [] band = "Developing" ->
            " that showed promising routines but still needs deeper student reasoning."
      [] band = "Unsatisfactory" ->
            " that now guides the next round of targeted coaching support."

\* the band named at the head of overall_score_average_or_band
RatingBand == Get(Get(result, "global_rating"), "overall_score_average_or_band").s[1].c

MockImpression == Get(MockOverview, "overall_impression")

\* C23: the overall impression of a mock payload closes with the phrasing of
\* the band computed from the payload's own scores, and that band is the one
\* named in overall_score_average_or_band
C23_ImpressionToneMatchesBand ==
    Generated =>
        /\ RatingBand \in Bands
        /\ RatingBand = describeScoreBand(calculateAverageFromDomainScores(MockDomainScores))
        /\ MockImpression.s[Len(MockImpression.s)] = [c |-> ImpressionTone(RatingBand)]

\* a payload rated Developing whose impression has the Developing tone
C23_Witness ==
    /\ Generated
    /\ RatingBand = "Developing"
    /\ MockImpression.s[Len(MockImpression.s)] = [c |-> ImpressionTone("Developing")]

---------------------------------------------------------------------------
(* The limits of inference of a mock payload *)

MockLimits == Get(result, "limits_of_inference")

\* C24: for every metadata input and every random outcome the
\* limits_of_inference of a mock payload is the sample's, both fields
C24_LimitsCopiedFromSample ==
    Generated =>
        /\ MockLimits = sampleLimitsOfInference
        /\ DOMAIN MockLimits.f = LimitsKeys
        /\ \A k \in LimitsKeys : MockLimits.f[k] = sampleEvaluation.f.limits_of_inference.f[k]

\* a payload whose overview and scores are not the sample's and whose limits are
C24_Witness ==
    /\ Generated
    /\ Get(MockOverview, "subject") = Text("Physics")
    /\ MockDomainScores # sampleDomainScores
    /\ MockLimits = sampleLimitsOfInference

---------------------------------------------------------------------------
(* normalizeEvaluation applied to its own result *)

\* the raw inputs, the sample payload itself and its JSON text
RenormalizeInputs == RawInputs \cup {sampleEvaluation, JsonText(sampleEvaluation)}

NormalizeTwice ==
    /\ result = Pending
    /\ LET once == normalizeEvaluation(raw)
       IN  result' = [once |-> once,
                      twice |-> IF IsThrown(once) THEN once ELSE normalizeEvaluation(once)]
    /\ UNCHANGED <<raw, pageVars, formVars, request>>

InitNormalizeTwice ==
    /\ raw \in RenormalizeInputs
    /\ result = Pending
    /\ PageInit
    /\ FormInit

NextNormalizeTwice == NormalizeTwice

SpecNormalizeTwice == InitNormalizeTwice /\ [][NextNormalizeTwice]_vars

\* C25: normalizing a normalized payload changes nothing, and the sample
\* payload normalizes to itself
C25_NormalizeIdempotent ==
    result # Pending =>
        /\ ~IsThrown(result.once)
        /\ result.twice = result.once
        /\ raw = sampleEvaluation => result.once = sampleEvaluation

\* a doubly encoded candidate lacking a field was completed from the sample,
\* and normalizing the outcome again gave the same payload
C25_Witness ==
    /\ result # Pending
    /\ raw = JsonText(JsonText(CandidateObject(WithoutKey(candidateLessonOverview, "subject"),
                                               Obj(NoFields), candidateGlobalRating,
                                               candidateLimits)))
    /\ result.once # sampleEvaluation
    /\ result.once.f.lesson_overview.f.subject = Text("Mathematics")
    /\ result.twice = result.once

\* the sample payload was normalized to itself
C25_SampleWitness ==
    /\ result # Pending
    /\ raw = sampleEvaluation
    /\ result.once = sampleEvaluation

---------------------------------------------------------------------------
(* The sample payload across submissions *)

\* the user retypes the subject, the one field edited here
SubjectChange ==
    \E value \in EditValues \cup {DEFAULT_METADATA.subject} :
        handleInputChange("subject", value)

\* one page module taking mock and live submissions in any order: the
\* behaviours of the live dashboard and of the demo dashboard that edit no
\* field but the subject are among its
NextSubmissions ==
    \/ SubjectChange
    \/ FileChange
    \/ handleSubmitRejected
    \/ handleSubmitLive
    \/ ResponseArrives
    \/ FetchRejects
    \/ handleSubmitDemo
    \/ TimerFires

SpecSubmissions == InitLive /\ [][NextSubmissions]_vars

\* the lists of a global_rating
RatingLists(rating) ==
    <<rating.f.top_strengths, rating.f.priority_areas_for_growth,
      rating.f.concrete_next_steps_for_teacher>>

---------------------------------------------------------------------------
(* Feedback and the submitting flag *)

\* the call in flight ends in this step
Finishes == InFlight /\ request' = NoRequest

\* the outcome of a live call that ends on response
LiveOutcome(response) ==
    IF ResponseOk(response) /\ ~IsThrown(parseResponse(response)) THEN "success" ELSE "error"

\* C27: while isSubmitting the feedback is null; once a submission has
\* started, isSubmitting false comes with a feedback that is the outcome of
\* the submission that finished last
C27_FeedbackTracksSubmission ==
    /\ [](isSubmitting => feedback = Null)
    /\ [][UploadStarts => isSubmitting']_vars
    /\ [][(isSubmitting \/ feedback # Null) => (isSubmitting' \/ feedback' # Null)]_vars
    /\ [][Finishes =>
              /\ ~isSubmitting'
              /\ feedback' # Null
              /\ FetchRejects => feedback'.type = "error"
              /\ TimerFires => feedback'.type = "success"
              /\ \A response \in LiveResponses :
                    FetchResolves(response) => feedback'.type = LiveOutcome(response)]_vars
    /\ [][(~Finishes /\ ~UploadStarts) => feedback' = feedback]_vars

\* a submission is in flight after an earlier one succeeded, and the success
\* message is gone
C27_Witness ==
    /\ isSubmitting
    /\ InFlight
    /\ feedback = Null
    /\ evaluation # sampleEvaluation

---------------------------------------------------------------------------
(* The chosen file after a submission *)

\* the call in flight ends in this step with error feedback
CompletesWithError ==
    /\ Finishes
    /\ feedback' # Null
    /\ feedback'.type = "error"

\* a submit now takes the validation branch: nothing is sent
SubmitWouldBeRejected == SubmitEnabled /\ audioFile = NoFile

\* a submit now calls onSubmit with the chosen file
SubmitWouldSend == SubmitEnabled /\ audioFile # NoFile

\* this step is a file selection
FileSelected == \E file \in AudioFiles \cup {NoFile} : handleFileChange(file)

\* C28: a submission that ends with success clears the chosen file, so the
\* next submit is rejected by validation unless a file is chosen again; one
\* that ends with an error keeps the file, so the next submit sends it again
C28_FileClearedOnSuccessOnly ==
    /\ [][CompletesSuccessfully => (audioFile' = NoFile /\ SubmitWouldBeRejected')]_vars
    /\ [][CompletesWithError =>
              /\ audioFile' = audioFile
              /\ audioFile # NoFile => SubmitWouldSend']_vars
    /\ [][(audioFile' # audioFile) => (FileSelected \/ CompletesSuccessfully)]_vars
    /\ [][(audioFile = NoFile /\ ~FileSelected) => ~UploadStarts]_vars
    /\ [][(UploadStarts /\ request'.pc = "fetch") => request'.formData.audio = audioFile]_vars

\* a request with the chosen file is in flight after the one before it failed
\* on the network; the page still holds the sample
C28_Witness ==
    /\ InFlight
    /\ request.pc = "fetch"
    /\ request.formData.audio = audioFile
    /\ audioFile # NoFile
    /\ evaluation = sampleEvaluation

\* a submit after a success was rejected for want of a file
C28_RejectedAfterSuccess ==
    /\ feedback # Null
    /\ feedback.type = "success"
    /\ audioFile = NoFile
    /\ localError = AttachFileMessage
    /\ request = NoRequest

---------------------------------------------------------------------------
(* The inline message next to a success message *)

InlineErrorShown == localError = AttachFileMessage

SuccessShown == feedback # Null /\ feedback.type = "success"

\* C29: the form never shows the inline validation error together with a
\* success feedback message
C29_NoInlineErrorWithSuccess ==
    ~(InlineErrorShown /\ SuccessShown)

---------------------------------------------------------------------------
(* The band next to the printed average *)

\* length of the repeating pattern of Math.random() outcomes behind the scores
RatingPatternLen == 3

\* Math.random() outcomes giving the scores 2.0, 2.9, 3.0, 3.9 and 4.0
RatingDraws == {0, 450, 500, 950, 999}

RatingMetadata == {Null, Obj(DEFAULT_METADATA)}

InitRating ==
    /\ raw \in RatingMetadata
    /\ result = Pending
    /\ PageInit
    /\ FormInit

NextRating == \E rnd \in StreamsOver(RatingDraws, RatingPatternLen) : GenerateMock(rnd)

SpecRating == InitRating /\ [][NextRating]_vars

MockRating == Get(Get(result, "global_rating"), "overall_score_average_or_band")

\* the digit a chunk of text shows
DigitOf(chunk) == CHOOSE d \in 0..9 : ToString(d) = chunk.c

\* the average printed in the rating, in tenths
PrintedAverage == 10 * DigitOf(MockRating.s[3]) + DigitOf(MockRating.s[5])

\* C30: the band named in overall_score_average_or_band is the band of the
\* table for the one-decimal average printed in the same string
C30_BandMatchesPrintedAverage ==
    Generated => MockRating.s[1].c = TableBand(PrintedAverage, 1)

\* the rating of the scores 2.9 and 3.0 in turn
C30_DevelopingAtThree ==
    /\ Generated
    /\ MockRating = Str(<<[c |-> "Developing"], [c |-> " (mock avg ~ "], [c |-> "3"],
                          [c |-> "."], [c |-> "0"], [c |-> " / 4)"]>>)

====
